---------------------------- MODULE Spec2Model ----------------------------
(***************************************************************************)
(* Model of app.py: the flow <-> tree conversions (_flow_root_title,       *)
(* _flow_to_children, _children_to_flow), find_node, load_tree/save_tree   *)
(* under _file_lock, and the four request handlers.                        *)
(*                                                                         *)
(* Python values are modelled as follows.                                  *)
(*   dict            a record; an optional key is a field that may be      *)
(*                   missing from DOMAIN                                   *)
(*   list            a sequence                                            *)
(*   edge            a dict edge is a record with "next" and optionally    *)
(*                   "label"; a bare string edge t is the record           *)
(*                   [str |-> t] (isinstance(e, dict) is IsDict)           *)
(*   ordered dict    by_title / nodes: a sequence of keys in insertion     *)
(*                   order plus a function from key to value               *)
(*   object reference (find_node's result): the path of child indices      *)
(*                   from the root, <<>> being the root itself             *)
(***************************************************************************)
EXTENDS Integers, Sequences, FiniteSets, TLC

VARIABLES
    \* ---- conversion harness (SpecG2T, SpecRT, SpecT2G) ----
    input,        \* the argument: a flow (SpecG2T) or a tree (SpecRT, SpecT2G)
    flowv,        \* result of _children_to_flow
    rootv,        \* result of _flow_root_title
    treev,        \* result of _flow_to_children
    step,         \* position of the harness
    \* ---- server (Spec, SpecFair) ----
    file,         \* DATA_FILE: absent / list / dict / other JSON
    lock,         \* _file_lock: NoThread or the thread holding it
    pc,           \* position of each thread
    req,          \* the request each worker is serving
    tree,         \* the handler's local `tree`
    resp,         \* the response returned by the handler
    broadcasts,   \* socketio.emit("tree_updated", ...) payloads, in order
    nwrites,      \* number of DATA_FILE.write_text calls so far
    nreq,         \* number of requests received so far
    hist          \* per worker: what the current request has done

vars == <<input, flowv, rootv, treev, step,
          file, lock, pc, req, tree, resp, broadcasts, nwrites, nreq, hist>>

convVars == <<input, flowv, rootv, treev, step>>
srvVars == <<file, lock, pc, req, tree, resp, broadcasts, nwrites, nreq, hist>>

(***************************************************************************)
(* Python helpers                                                          *)
(***************************************************************************)

\* d.get(k, default)
Get(d, k, default) == IF k \in DOMAIN d THEN d[k] ELSE default

\* d[k] = v on a dict (adds the key when missing)
SetKey(d, k, v) == [x \in DOMAIN d \cup {k} |-> IF x = k THEN v ELSE d[x]]

\* isinstance(e, dict) for an edge
IsDict(e) == "str" \notin DOMAIN e

\* the elements of a sequence
Range(s) == {s[i] : i \in DOMAIN s}

(***************************************************************************)
(* _flow_root_title  (app.py 8-20)                                         *)
(***************************************************************************)

\* keys of {n["title"]: n for n in flow}, in insertion order
RECURSIVE ByTitleKeys(_)
ByTitleKeys(flow) ==
    IF flow = <<>> THEN <<>>
    ELSE LET front == ByTitleKeys(SubSeq(flow, 1, Len(flow) - 1))
             t == flow[Len(flow)].title
         IN IF t \in Range(front) THEN front ELSE Append(front, t)

\* {n["title"]: n for n in flow}: a later node with the same title replaces
\* the value of an earlier one
ByTitle(flow) ==
    [t \in {flow[i].title : i \in DOMAIN flow} |->
        LET last == CHOOSE i \in DOMAIN flow :
                        /\ flow[i].title = t
                        /\ \A j \in DOMAIN flow : flow[j].title = t => j <= i
        IN flow[last]]

\* tgt = e.get("next") if isinstance(e, dict) else e
EdgeTarget(e) == IF IsDict(e) THEN e.next ELSE e.str

\* the set `referenced`: `if tgt: referenced.add(tgt)` skips a falsy target,
\* the empty string included
Referenced(flow) ==
    {tgt \in UNION {{EdgeTarget(e) : e \in Range(Get(flow[i], "next", <<>>))} :
                        i \in DOMAIN flow} : tgt # ""}

_flow_root_title(flow) ==
    LET keys == ByTitleKeys(flow)
        referenced == Referenced(flow)
        unref == {i \in DOMAIN keys : keys[i] \notin referenced}
    IN IF "START" \in Range(keys) THEN "START"
       ELSE IF unref # {}
            THEN keys[CHOOSE i \in unref : \A j \in unref : i <= j]
            ELSE flow[1].title

(***************************************************************************)
(* _flow_to_children  (app.py 22-53)                                       *)
(***************************************************************************)

\* Stub with the "missing:" prefix forgotten
Stub_NoPrefix(title) ==
    [id |-> title, title |-> title, description |-> "", children |-> <<>>]

\* the stub of a missing reference (app.py 31)
Stub(title) ==
    [id |-> "missing:" \o title, title |-> title, description |-> "",
     children |-> <<>>]

RECURSIVE build(_, _, _)
\* build with the cycle guard answering a repeated title as if it were a
\* missing reference
build_RepeatAsMissing(by_title, title, seen) ==
    IF title \notin DOMAIN by_title \/ title \in seen THEN Stub(title)
    ELSE
      LET src == by_title[title]
          edges == Get(src, "next", <<>>)
          childOf(edge) ==
              LET child == build(by_title, EdgeTarget(edge), seen \cup {title})
              IN IF IsDict(edge) /\ "label" \in DOMAIN edge
                 THEN SetKey(child, "edgeLabel", edge.label)
                 ELSE child
      IN [id |-> Get(src, "id", title),
          title |-> Get(src, "title", title),
          description |-> Get(src, "description", ""),
          children |-> [i \in 1..Len(edges) |-> childOf(edges[i])]]

build(by_title, title, seen) ==
    IF title \notin DOMAIN by_title THEN Stub(title)
    ELSE
      LET src == by_title[title]
          node == [id |-> Get(src, "id", title),
                   title |-> Get(src, "title", title),
                   description |-> Get(src, "description", ""),
                   children |-> <<>>]
          edges == Get(src, "next", <<>>)
          seen2 == seen \cup {title}
          childOf(edge) ==
              LET child == build(by_title, EdgeTarget(edge), seen2)
              IN IF IsDict(edge) /\ "label" \in DOMAIN edge
                 THEN SetKey(child, "edgeLabel", edge.label)
                 ELSE child
      IN IF title \in seen THEN node
         ELSE [node EXCEPT !.children =
                   [i \in 1..Len(edges) |-> childOf(edges[i])]]

_flow_to_children(flow) ==
    build(ByTitle(flow), _flow_root_title(flow), {})

(***************************************************************************)
(* _children_to_flow  (app.py 55-79)                                       *)
(* `nodes` is the ordered dict, modelled as the sequence of its values in  *)
(* insertion order (each value carries its key, the title).                *)
(***************************************************************************)

NodeTitles(nodes) == {nodes[i].title : i \in DOMAIN nodes}

\* ensure_node overwriting the id and description of a title already seen
ensure_node_LastWins(nodes, n) ==
    LET t == Get(n, "title", "")
        i0 == Get(n, "id", "")
        nid == IF i0 # "" THEN i0 ELSE t
    IN IF t \notin NodeTitles(nodes)
       THEN Append(nodes, [id |-> nid, title |-> t,
                           description |-> Get(n, "description", ""),
                           next |-> <<>>])
       ELSE [i \in DOMAIN nodes |->
                IF nodes[i].title = t
                THEN [nodes[i] EXCEPT !.id = nid,
                         !.description = Get(n, "description", "")]
                ELSE nodes[i]]

ensure_node(nodes, n) ==
    LET t == Get(n, "title", "")
        i0 == Get(n, "id", "")
        nid == IF i0 # "" THEN i0 ELSE t
    IN IF t \notin NodeTitles(nodes)
       THEN Append(nodes, [id |-> nid, title |-> t,
                           description |-> Get(n, "description", ""),
                           next |-> <<>>])
       ELSE nodes

\* nodes[title]["next"].append(edge)
AppendEdge(nodes, title, edge) ==
    [i \in DOMAIN nodes |->
        IF nodes[i].title = title
        THEN [nodes[i] EXCEPT !.next = Append(@, edge)]
        ELSE nodes[i]]

RECURSIVE walk(_, _)
RECURSIVE walkChildren(_, _, _)
\* the loop pushing the edge to each child without visiting the child
walkChildren_EdgesOnly(nodes, n, i) ==
    LET cs == Get(n, "children", <<>>)
    IN IF i > Len(cs) THEN nodes
       ELSE LET c == cs[i]
                n2 == AppendEdge(nodes, n.title,
                                 [label |-> Get(c, "edgeLabel", ""),
                                  next |-> Get(c, "title", "")])
            IN walkChildren(n2, n, i + 1)

\* the loop `for c in n.get("children", [])` from the i-th child on
walkChildren(nodes, n, i) ==
    LET cs == Get(n, "children", <<>>)
    IN IF i > Len(cs) THEN nodes
       ELSE LET c == cs[i]
                n1 == ensure_node(nodes, c)
                n2 == AppendEdge(n1, n.title,
                                 [label |-> Get(c, "edgeLabel", ""),
                                  next |-> Get(c, "title", "")])
            IN walkChildren(walk(n2, c), n, i + 1)

walk(nodes, n) == walkChildren(ensure_node(nodes, n), n, 1)

_children_to_flow(t) ==
    LET nodes == walk(<<>>, t)
        rootIx == CHOOSE i \in DOMAIN nodes : nodes[i].title = t.title
    IN <<nodes[rootIx]>> \o
       SelectSeq(nodes, LAMBDA v : v.title # t.title)

(***************************************************************************)
(* Tree nodes by reference: a node of a tree is named by its path, the     *)
(* sequence of child indices from the root                                 *)
(***************************************************************************)

\* n.get("children", [])
Kids(t) == Get(t, "children", <<>>)

RECURSIVE Paths(_)
\* the paths of all nodes of a tree
Paths(t) ==
    {<<>>} \cup
    UNION {{<<i>> \o p : p \in Paths(Kids(t)[i])} : i \in DOMAIN Kids(t)}

RECURSIVE NodeAt(_, _)
\* the node at a path
NodeAt(t, path) ==
    IF path = <<>> THEN t ELSE NodeAt(Kids(t)[Head(path)], Tail(path))

RECURSIVE ReplaceAt(_, _, _)
\* the tree after the node at a path was mutated into `new`
ReplaceAt(t, path, new) ==
    IF path = <<>> THEN new
    ELSE [t EXCEPT !.children =
             [@ EXCEPT ![Head(path)] = ReplaceAt(@, Tail(path), new)]]

\* the titles of the nodes of a tree
TitlesOf(t) == {NodeAt(t, p).title : p \in Paths(t)}

(***************************************************************************)
(* Bounded inputs of the conversions                                       *)
(***************************************************************************)

\* a flow has at most this many nodes and edges together
MaxFlowSize == 4
\* a tree given to _children_to_flow has at most this many nodes
MaxTreeNodes == 3

\* titles of flat nodes and targets of their edges
FlowTitles == {"START", "A", "B", ""}
\* titles of tree nodes
TreeTitles == {"START", "A", "B", ""}

\* an edge to t: a dict with a label, a dict without one, a bare string
EdgesTo(t) == {[label |-> "x", next |-> t], [next |-> t], [str |-> t]}

\* a flat node titled t with edges es: with every key, or with the optional
\* keys (id, description, and next when there is no edge) left out
FlatNodes(t, es) ==
    {[id |-> "n" \o t, title |-> t, description |-> "d", next |-> es],
     IF es = <<>> THEN [title |-> t] ELSE [title |-> t, next |-> es]}

RECURSIVE DrawFlow(_, _, _)
\* input is a non-empty flow of at most b more nodes and edges than the
\* nodes of `done` and the edges `es` of the node being drawn
DrawFlow(b, done, es) ==
    \/ \E t \in FlowTitles : \E nd \in FlatNodes(t, es) :
          \/ input = Append(done, nd)
          \/ b > 0 /\ DrawFlow(b - 1, Append(done, nd), <<>>)
    \/ /\ b > 0
       /\ \E t \in FlowTitles : \E e \in EdgesTo(t) :
             DrawFlow(b - 1, done, Append(es, e))

\* a tree node titled t: with its own id and a description, or with an empty
\* id and description; as a child without edgeLabel or with one
TreeNodes(t) ==
    {[id |-> "n" \o t, title |-> t, description |-> "d", children |-> <<>>],
     [id |-> "", title |-> t, description |-> "", children |-> <<>>]}
AsChild(nd) == {nd} \cup {SetKey(nd, "edgeLabel", l) : l \in {"", "x"}}

RECURSIVE DrawTree(_, _)
\* input is t, or t grown by at most n nodes, each added as the last child
\* of a node and titled unlike every other node
DrawTree(n, t) ==
    \/ input = t
    \/ /\ n > 0
       /\ \E p \in Paths(t) : \E title \in TreeTitles \ TitlesOf(t) :
          \E nd \in TreeNodes(title) : \E c \in AsChild(nd) :
             DrawTree(n - 1,
                      ReplaceAt(t, p, [NodeAt(t, p) EXCEPT
                                          !.children = Append(@, c)]))

\* a tree given to _children_to_flow alone has at most this many nodes
MaxShapeNodes == 4
\* titles of such a tree; two nodes may have the same one
ShapeTitles == {"A", "B", ""}
\* a child titled t: with its own id, a description and an edgeLabel, or
\* with an empty id and description and no edgeLabel
ShapeChildren(t) ==
    {[id |-> "n" \o t, title |-> t, description |-> "d", edgeLabel |-> "x",
      children |-> <<>>],
     [id |-> "", title |-> t, description |-> "", children |-> <<>>]}

RECURSIVE DrawAnyTree(_, _)
\* input is t, or t grown by at most n nodes, each added as the last child
\* of a node, with any title
DrawAnyTree(n, t) ==
    \/ input = t
    \/ /\ n > 0
       /\ \E p \in Paths(t) : \E title \in ShapeTitles :
          \E c \in ShapeChildren(title) :
             DrawAnyTree(n - 1,
                         ReplaceAt(t, p, [NodeAt(t, p) EXCEPT
                                             !.children = Append(@, c)]))

(***************************************************************************)
(* find_node  (app.py 119-126)                                             *)
(* The result (node, parent) is the path of the first match in depth-first *)
(* order: the node is NodeAt(tree, path), the parent is the node one step  *)
(* up, and None when the path is empty.  (None, None) is found = FALSE.    *)
(***************************************************************************)

RECURSIVE find_node(_, _)
find_node(node, node_id) ==
    IF node.id = node_id THEN [found |-> TRUE, path |-> <<>>]
    ELSE LET cs == Kids(node)
             hits == {i \in DOMAIN cs : find_node(cs[i], node_id).found}
         IN IF hits = {} THEN [found |-> FALSE]
            ELSE LET i == CHOOSE i \in hits : \A j \in hits : i <= j
                 IN [found |-> TRUE,
                     path |-> <<i>> \o find_node(cs[i], node_id).path]

\* a path without its last step: the parent's path
Front(path) == SubSeq(path, 1, Len(path) - 1)

(***************************************************************************)
(* The server: the main thread (app.py 193-196) and the request workers    *)
(***************************************************************************)

\* at most this many requests are received
MaxRequests == 2

Main == "main"
Workers == {"w1", "w2"}
Threads == Workers \cup {Main}
NoThread == "none"

\* Python's None, and a local not yet assigned
None == [none |-> TRUE]

\* the seed title and description swapped
Seed_Swapped ==
    <<[id |-> "root-seed", title |-> "Start", description |-> "START",
       next |-> <<>>]>>

\* the seed flow (app.py 95-100)
Seed ==
    <<[id |-> "root-seed", title |-> "START", description |-> "Start",
       next |-> <<>>]>>

\* what tree.json may hold when the program starts: nothing, a flow, a
\* nested tree, or JSON that is neither a list nor an object
InitFiles ==
    {[kind |-> "absent"],
     [kind |-> "list",
      flow |-> <<[id |-> "root-seed", title |-> "START", description |-> "",
                  next |-> <<[label |-> "x", next |-> "A"]>>],
                 [id |-> "a", title |-> "A", description |-> "d",
                  next |-> <<>>]>>],
     [kind |-> "dict",
      tree |-> [id |-> "root-seed", title |-> "R", description |-> "",
                children |-> <<[id |-> "a", title |-> "A",
                                description |-> "d", children |-> <<>>]>>]],
     [kind |-> "other"]}

\* outcomes of os.urandom(4).hex() (app.py 143)
GenIds == {"n1", "n2"}

\* request.get_json() of POST /api/node: under the root with a title a child
\* already has; under a child with nothing but parentId; with an id a node
\* already has; under a parent that no node is
AddBodies ==
    {[parentId |-> "root-seed", title |-> "A", description |-> "b",
      edgeLabel |-> "y"],
     [parentId |-> "a"],
     [parentId |-> "root-seed", title |-> "C", id |-> "a"],
     [parentId |-> "zz", title |-> "C"]}

\* PUT /api/node/<node_id> and its body; [none |-> TRUE] stands for the
\* body {} (it has neither "title" nor "description"); one edit gives a
\* child the title "START", which _flow_root_title looks for
Edits ==
    {[op |-> "edit", node_id |-> "root-seed", data |-> [description |-> "e"]],
     [op |-> "edit", node_id |-> "a", data |-> [title |-> "START"]],
     [op |-> "edit", node_id |-> "a",
      data |-> [title |-> "T", description |-> "e"]],
     [op |-> "edit", node_id |-> "a", data |-> None],
     [op |-> "edit", node_id |-> "zz", data |-> [title |-> "T"]]}

\* DELETE /api/node/<node_id>: the root, a child, a node an add made, none
DeletedIds == {"root-seed", "a", "n1", "zz"}

Requests ==
    {[op |-> "get"]}
    \cup {[op |-> "add", data |-> d] : d \in AddBodies}
    \cup Edits
    \cup {[op |-> "delete", node_id |-> i] : i \in DeletedIds}

\* what a request has done so far (history, not program state); loadedAt
\* and wroteAt are the values of nwrites at its read and after its write
NoHist(f, n) ==
    [fileAtStart |-> f, writesAtStart |-> n, loaded |-> None, loadedAt |-> -1,
     writes |-> 0, wrote |-> None, wroteAt |-> -1, emitted |-> <<>>]

Init ==
    /\ file \in InitFiles
    /\ lock = NoThread
    /\ pc = [t \in Threads |-> IF t = Main THEN "load" ELSE "idle"]
    /\ req = [t \in Threads |-> None]
    /\ tree = [t \in Threads |-> None]
    /\ resp = [t \in Threads |-> None]
    /\ broadcasts = <<>>
    /\ nwrites = 0
    /\ nreq = 0
    /\ hist = [t \in Threads |-> NoHist(file, 0)]
    /\ input = <<>>
    /\ flowv = <<>>
    /\ rootv = ""
    /\ treev = <<>>
    /\ step = "off"

\* ---- load_tree (app.py 91-110) ----

\* `with _file_lock:` entered
LoadAcquire(t) ==
    /\ pc[t] = "load"
    /\ lock = NoThread
    /\ lock' = t
    /\ pc' = [pc EXCEPT ![t] = "load_locked"]
    /\ UNCHANGED <<file, req, tree, resp, broadcasts, nwrites, nreq, hist>>
    /\ UNCHANGED convVars

\* the file is missing: write the seed (app.py 93-101)
LoadSeed(t) ==
    /\ pc[t] = "load_locked"
    /\ file.kind = "absent"
    /\ file' = [kind |-> "list", flow |-> Seed]
    /\ nwrites' = nwrites + 1
    /\ hist' = [hist EXCEPT ![t].writes = @ + 1]
    /\ UNCHANGED <<lock, pc, req, tree, resp, broadcasts, nreq>>
    /\ UNCHANGED convVars

\* json.loads fails on nothing here; flow[0] raises on an empty list
\* (app.py 20) and any other JSON raises ValueError (app.py 110)
LoadRaises == \/ file.kind = "other"
              \/ file.kind = "list" /\ file.flow = <<>>

\* load_tree taking the lock without `with`: an exception leaves it held
LoadRead_KeepsLockOnRaise(t) ==
    /\ pc[t] = "load_locked"
    /\ file.kind # "absent"
    /\ LET t0 == IF LoadRaises THEN None
                 ELSE IF file.kind = "list" THEN _flow_to_children(file.flow)
                 ELSE file.tree
       IN /\ tree' = [tree EXCEPT ![t] = t0]
          /\ hist' = [hist EXCEPT ![t].loaded = t0, ![t].loadedAt = nwrites]
    /\ pc' = [pc EXCEPT ![t] = IF LoadRaises THEN "raised" ELSE "loaded"]
    /\ lock' = IF LoadRaises THEN t ELSE NoThread
    /\ UNCHANGED <<file, req, resp, broadcasts, nwrites, nreq>>
    /\ UNCHANGED convVars

\* read the file, convert, leave the lock (app.py 103-110)
LoadRead(t) ==
    /\ pc[t] = "load_locked"
    /\ file.kind # "absent"
    /\ LET t0 == IF LoadRaises THEN None
                 ELSE IF file.kind = "list" THEN _flow_to_children(file.flow)
                 ELSE file.tree
       IN /\ tree' = [tree EXCEPT ![t] = t0]
          /\ hist' = [hist EXCEPT ![t].loaded = t0, ![t].loadedAt = nwrites]
    /\ pc' = [pc EXCEPT ![t] = IF LoadRaises THEN "raised" ELSE "loaded"]
    /\ lock' = NoThread
    /\ UNCHANGED <<file, req, resp, broadcasts, nwrites, nreq>>
    /\ UNCHANGED convVars

\* an exception of load_tree: the main thread dies before socketio.run, a
\* request answers 500
Raise(t) ==
    /\ pc[t] = "raised"
    /\ pc' = [pc EXCEPT ![t] = IF t = Main THEN "crashed" ELSE "done"]
    /\ resp' = [resp EXCEPT ![t] = [status |-> 500]]
    /\ UNCHANGED <<file, lock, req, tree, broadcasts, nwrites, nreq, hist>>
    /\ UNCHANGED convVars

\* socketio.run(app, ...) after the first load_tree() (app.py 195-196)
Serve ==
    /\ pc[Main] = "loaded"
    /\ pc' = [pc EXCEPT ![Main] = "serving"]
    /\ UNCHANGED <<file, lock, req, tree, resp, broadcasts, nwrites, nreq, hist>>
    /\ UNCHANGED convVars

\* a worker receives a request
Receive(w, r) ==
    /\ pc[Main] = "serving"
    /\ pc[w] \in {"idle", "done"}
    /\ nreq < MaxRequests
    /\ nreq' = nreq + 1
    /\ req' = [req EXCEPT ![w] = r]
    /\ tree' = [tree EXCEPT ![w] = None]
    /\ resp' = [resp EXCEPT ![w] = None]
    /\ hist' = [hist EXCEPT ![w] = NoHist(file, nwrites)]
    /\ pc' = [pc EXCEPT ![w] = "load"]
    /\ UNCHANGED <<file, lock, broadcasts, nwrites>>
    /\ UNCHANGED convVars

\* ---- the handlers, from load_tree's return to save_tree or the return ----

\* the handler returns `r`
Return(w, r) ==
    /\ resp' = [resp EXCEPT ![w] = r]
    /\ pc' = [pc EXCEPT ![w] = "done"]

\* api_get_tree (app.py 132-134)
GetTree(w) ==
    /\ pc[w] = "loaded"
    /\ req[w].op = "get"
    /\ Return(w, [status |-> 200, tree |-> tree[w]])
    /\ UNCHANGED <<file, lock, req, tree, broadcasts, nwrites, nreq, hist>>
    /\ UNCHANGED convVars

\* api_add_node up to save_tree (app.py 136-156)
AddNode(w) ==
    /\ pc[w] = "loaded"
    /\ req[w].op = "add"
    /\ LET data == req[w].data
           f == find_node(tree[w], data.parentId)
       IN IF ~f.found
          THEN /\ Return(w, [status |-> 404, error |-> "parent not found"])
               /\ UNCHANGED <<req, tree>>
          ELSE \E new_id \in (IF Get(data, "id", "") # "" THEN {data.id}
                              ELSE GenIds) :
                 LET parent == NodeAt(tree[w], f.path)
                     child == [id |-> new_id,
                               title |-> Get(data, "title", "Untitled"),
                               description |-> Get(data, "description", ""),
                               edgeLabel |-> Get(data, "edgeLabel", ""),
                               children |-> <<>>]
                 IN /\ tree' = [tree EXCEPT ![w] =
                           ReplaceAt(@, f.path,
                               SetKey(parent, "children",
                                      Append(Kids(parent), child)))]
                    /\ req' = [req EXCEPT ![w] = SetKey(@, "new_id", new_id)]
                    /\ pc' = [pc EXCEPT ![w] = "save"]
                    /\ UNCHANGED resp
    /\ UNCHANGED <<file, lock, broadcasts, nwrites, nreq, hist>>
    /\ UNCHANGED convVars

\* api_edit_node editing the root when no node has the id
EditNode_RootFallback(w) ==
    /\ pc[w] = "loaded"
    /\ req[w].op = "edit"
    /\ LET data == req[w].data
           f == find_node(tree[w], req[w].node_id)
           path == IF f.found THEN f.path ELSE <<>>
           node == NodeAt(tree[w], path)
           n1 == IF "title" \in DOMAIN data
                 THEN SetKey(node, "title", data.title) ELSE node
           n2 == IF "description" \in DOMAIN data
                 THEN SetKey(n1, "description", data.description) ELSE n1
       IN /\ tree' = [tree EXCEPT ![w] = ReplaceAt(@, path, n2)]
          /\ pc' = [pc EXCEPT ![w] = "save"]
    /\ UNCHANGED <<file, lock, req, resp, broadcasts, nwrites, nreq, hist>>
    /\ UNCHANGED convVars

\* api_edit_node replacing the found node by a new dict of id, title,
\* description and children (the edgeLabel is lost)
EditNode_Rebuilt(w) ==
    /\ pc[w] = "loaded"
    /\ req[w].op = "edit"
    /\ LET data == req[w].data
           f == find_node(tree[w], req[w].node_id)
       IN IF ~f.found
          THEN /\ Return(w, [status |-> 404, error |-> "node not found"])
               /\ UNCHANGED tree
          ELSE LET node == NodeAt(tree[w], f.path)
                   n2 == [id |-> node.id,
                          title |-> Get(data, "title", node.title),
                          description |-> Get(data, "description",
                                              node.description),
                          children |-> Kids(node)]
               IN /\ tree' = [tree EXCEPT ![w] = ReplaceAt(@, f.path, n2)]
                  /\ pc' = [pc EXCEPT ![w] = "save"]
                  /\ UNCHANGED resp
    /\ UNCHANGED <<file, lock, req, broadcasts, nwrites, nreq, hist>>
    /\ UNCHANGED convVars

\* api_edit_node up to save_tree (app.py 161-173)
EditNode(w) ==
    /\ pc[w] = "loaded"
    /\ req[w].op = "edit"
    /\ LET data == req[w].data
           f == find_node(tree[w], req[w].node_id)
       IN IF ~f.found
          THEN /\ Return(w, [status |-> 404, error |-> "node not found"])
               /\ UNCHANGED tree
          ELSE LET node == NodeAt(tree[w], f.path)
                   n1 == IF "title" \in DOMAIN data
                         THEN SetKey(node, "title", data.title) ELSE node
                   n2 == IF "description" \in DOMAIN data
                         THEN SetKey(n1, "description", data.description)
                         ELSE n1
               IN /\ tree' = [tree EXCEPT ![w] = ReplaceAt(@, f.path, n2)]
                  /\ pc' = [pc EXCEPT ![w] = "save"]
                  /\ UNCHANGED resp
    /\ UNCHANGED <<file, lock, req, broadcasts, nwrites, nreq, hist>>
    /\ UNCHANGED convVars

\* api_delete_node without the `parent is None` test: the root is taken as
\* its own parent
DeleteNode_NoRootCheck(w) ==
    /\ pc[w] = "loaded"
    /\ req[w].op = "delete"
    /\ LET node_id == req[w].node_id
           f == find_node(tree[w], node_id)
       IN IF ~f.found
          THEN /\ resp' = [resp EXCEPT ![w] =
                      [status |-> 404, error |-> "node not found"]]
               /\ pc' = [pc EXCEPT ![w] = "done"]
               /\ UNCHANGED tree
          ELSE LET parent == NodeAt(tree[w], Front(f.path))
                   rest == SelectSeq(Kids(parent), LAMBDA c : c.id # node_id)
               IN /\ tree' = [tree EXCEPT ![w] =
                         ReplaceAt(@, Front(f.path),
                                   SetKey(parent, "children", rest))]
                  /\ pc' = [pc EXCEPT ![w] = "save"]
                  /\ UNCHANGED resp
    /\ UNCHANGED <<file, lock, req, broadcasts, nwrites, nreq, hist>>
    /\ UNCHANGED convVars

\* api_delete_node up to save_tree (app.py 179-188)
DeleteNode(w) ==
    /\ pc[w] = "loaded"
    /\ req[w].op = "delete"
    /\ LET node_id == req[w].node_id
           f == find_node(tree[w], node_id)
       IN IF ~f.found
          THEN /\ Return(w, [status |-> 404, error |-> "node not found"])
               /\ UNCHANGED tree
          ELSE IF f.path = <<>>
          THEN /\ Return(w, [status |-> 400, error |-> "cannot delete root"])
               /\ UNCHANGED tree
          ELSE LET parent == NodeAt(tree[w], Front(f.path))
                   rest == SelectSeq(Kids(parent), LAMBDA c : c.id # node_id)
               IN /\ tree' = [tree EXCEPT ![w] =
                         ReplaceAt(@, Front(f.path),
                                   SetKey(parent, "children", rest))]
                  /\ pc' = [pc EXCEPT ![w] = "save"]
                  /\ UNCHANGED resp
    /\ UNCHANGED <<file, lock, req, broadcasts, nwrites, nreq, hist>>
    /\ UNCHANGED convVars

\* ---- save_tree (app.py 112-116) ----

\* save_tree entering the file section without waiting for the lock
SaveAcquire_NoWait(w) ==
    /\ pc[w] = "save"
    /\ lock' = w
    /\ pc' = [pc EXCEPT ![w] = "save_locked"]
    /\ UNCHANGED <<file, req, tree, resp, broadcasts, nwrites, nreq, hist>>
    /\ UNCHANGED convVars

\* `with _file_lock:` entered
SaveAcquire(w) ==
    /\ pc[w] = "save"
    /\ lock = NoThread
    /\ lock' = w
    /\ pc' = [pc EXCEPT ![w] = "save_locked"]
    /\ UNCHANGED <<file, req, tree, resp, broadcasts, nwrites, nreq, hist>>
    /\ UNCHANGED convVars

\* save_tree writing the nested tree as it is
SaveWrite_Nested(w) ==
    /\ pc[w] = "save_locked"
    /\ file' = [kind |-> "dict", tree |-> tree[w]]
    /\ hist' = [hist EXCEPT ![w].writes = @ + 1, ![w].wrote = tree[w],
                             ![w].wroteAt = nwrites + 1]
    /\ nwrites' = nwrites + 1
    /\ lock' = NoThread
    /\ pc' = [pc EXCEPT ![w] = "emit"]
    /\ UNCHANGED <<req, tree, resp, broadcasts, nreq>>
    /\ UNCHANGED convVars

\* save_tree with a version check: the write is dropped when the file was
\* written after this request read it
SaveWrite_Versioned(w) ==
    /\ pc[w] = "save_locked"
    /\ LET flow == _children_to_flow(tree[w])
       IN /\ file' = IF nwrites = hist[w].loadedAt
                     THEN [kind |-> "list", flow |-> flow] ELSE file
          /\ hist' = [hist EXCEPT ![w].writes = @ + 1, ![w].wrote = flow,
                                   ![w].wroteAt = nwrites + 1]
    /\ nwrites' = nwrites + 1
    /\ lock' = NoThread
    /\ pc' = [pc EXCEPT ![w] = "emit"]
    /\ UNCHANGED <<req, tree, resp, broadcasts, nreq>>
    /\ UNCHANGED convVars

\* flatten, write, leave the lock
SaveWrite(w) ==
    /\ pc[w] = "save_locked"
    /\ LET flow == _children_to_flow(tree[w])
       IN /\ file' = [kind |-> "list", flow |-> flow]
          /\ hist' = [hist EXCEPT ![w].writes = @ + 1, ![w].wrote = flow,
                                   ![w].wroteAt = nwrites + 1]
    /\ nwrites' = nwrites + 1
    /\ lock' = NoThread
    /\ pc' = [pc EXCEPT ![w] = "emit"]
    /\ UNCHANGED <<req, tree, resp, broadcasts, nreq>>
    /\ UNCHANGED convVars

\* the handler emitting the tree as load_tree returned it
Emit_Stale(w) ==
    /\ pc[w] = "emit"
    /\ broadcasts' = Append(broadcasts, hist[w].loaded)
    /\ hist' = [hist EXCEPT ![w].emitted = Append(@, hist[w].loaded)]
    /\ resp' = [resp EXCEPT ![w] =
                   IF req[w].op = "add"
                   THEN [status |-> 200, tree |-> tree[w],
                         newId |-> req[w].new_id]
                   ELSE [status |-> 200, tree |-> tree[w]]]
    /\ pc' = [pc EXCEPT ![w] = "done"]
    /\ UNCHANGED <<file, lock, req, tree, nwrites, nreq>>
    /\ UNCHANGED convVars

\* socketio.emit("tree_updated", tree) and the return of the handler
\* (app.py 158-159, 176-177, 190-191)
Emit(w) ==
    /\ pc[w] = "emit"
    /\ broadcasts' = Append(broadcasts, tree[w])
    /\ hist' = [hist EXCEPT ![w].emitted = Append(@, tree[w])]
    /\ Return(w, IF req[w].op = "add"
                 THEN [status |-> 200, tree |-> tree[w],
                       newId |-> req[w].new_id]
                 ELSE [status |-> 200, tree |-> tree[w]])
    /\ UNCHANGED <<file, lock, req, tree, nwrites, nreq>>
    /\ UNCHANGED convVars

Next ==
    \/ \E t \in Threads : LoadAcquire(t) \/ LoadSeed(t) \/ LoadRead(t) \/ Raise(t)
    \/ Serve
    \/ \E w \in Workers : \E r \in Requests : Receive(w, r)
    \/ \E w \in Workers : GetTree(w) \/ AddNode(w) \/ EditNode(w) \/ DeleteNode(w)
    \/ \E w \in Workers : SaveAcquire(w) \/ SaveWrite(w) \/ Emit(w)

Spec == Init /\ [][Next]_vars

\* a step of thread t other than the file read, the file write and the
\* wait for the lock
Step(t) ==
    \/ LoadSeed(t) \/ Raise(t)
    \/ /\ t \in Workers
       /\ \/ GetTree(t) \/ AddNode(t) \/ EditNode(t) \/ DeleteNode(t)
          \/ Emit(t)

\* thread t entering a `with _file_lock:` block
Acquire(t) == LoadAcquire(t) \/ (t \in Workers /\ SaveAcquire(t))

\* fair scheduling: a thread that can take a step does take it, and a
\* thread waiting for a lock that stays free gets it; requests arrive or
\* not.  For LoadRead and SaveWrite weak fairness is written out,
\* ENABLED <<LoadRead(t)>>_vars being the guard of LoadRead(t) and
\* ENABLED <<SaveWrite(w)>>_vars the guard of SaveWrite(w).
Fairness ==
    /\ WF_vars(Serve)
    /\ \A t \in Threads : WF_vars(Step(t)) /\ WF_vars(Acquire(t))
    /\ \A t \in Threads :
          <>[](pc[t] = "load_locked" /\ file.kind # "absent")
              => []<><<LoadRead(t)>>_vars
    /\ \A w \in Workers :
          <>[](pc[w] = "save_locked") => []<><<SaveWrite(w)>>_vars

SpecFair == Spec /\ Fairness

(***************************************************************************)
(* The server is not running in the conversion specifications.             *)
(***************************************************************************)

SrvOff ==
    /\ file = [kind |-> "absent"]
    /\ lock = NoThread
    /\ pc = <<>>
    /\ req = <<>>
    /\ tree = <<>>
    /\ resp = <<>>
    /\ broadcasts = <<>>
    /\ nwrites = 0
    /\ nreq = 0
    /\ hist = <<>>

(***************************************************************************)
(* SpecG2T: GraphToTree applied to every bounded flow                      *)
(***************************************************************************)

InitG2T ==
    /\ DrawFlow(MaxFlowSize - 1, <<>>, <<>>)
    /\ flowv = <<>>
    /\ rootv = ""
    /\ treev = <<>>
    /\ step = "flow"
    /\ SrvOff

\* _flow_root_title(flow)
InferRoot ==
    /\ step = "flow"
    /\ rootv' = _flow_root_title(input)
    /\ step' = "rooted"
    /\ UNCHANGED <<input, flowv, treev>>
    /\ UNCHANGED srvVars

\* _flow_to_children(flow)
GraphToTree ==
    /\ step = "rooted"
    /\ treev' = _flow_to_children(input)
    /\ step' = "built"
    /\ UNCHANGED <<input, flowv, rootv>>
    /\ UNCHANGED srvVars

NextG2T == InferRoot \/ GraphToTree

SpecG2T == InitG2T /\ [][NextG2T]_vars

(***************************************************************************)
(* SpecRT: TreeToGraph then GraphToTree on every bounded tree with         *)
(* pairwise distinct titles                                                *)
(***************************************************************************)

InitRT ==
    /\ \E t \in TreeTitles : \E root \in TreeNodes(t) :
          DrawTree(MaxTreeNodes - 1, root)
    /\ flowv = <<>>
    /\ rootv = ""
    /\ treev = <<>>
    /\ step = "tree"
    /\ SrvOff

\* _children_to_flow(tree)
TreeToGraph ==
    /\ step = "tree"
    /\ flowv' = _children_to_flow(input)
    /\ step' = "flat"
    /\ UNCHANGED <<input, rootv, treev>>
    /\ UNCHANGED srvVars

\* _flow_to_children(flow) on the flow just produced
GraphBackToTree ==
    /\ step = "flat"
    /\ rootv' = _flow_root_title(flowv)
    /\ treev' = _flow_to_children(flowv)
    /\ step' = "back"
    /\ UNCHANGED <<input, flowv>>
    /\ UNCHANGED srvVars

NextRT == TreeToGraph \/ GraphBackToTree

SpecRT == InitRT /\ [][NextRT]_vars

(***************************************************************************)
(* SpecT2G: TreeToGraph on every bounded tree, titles repeated or not       *)
(***************************************************************************)

InitT2G ==
    /\ \E t \in ShapeTitles : \E root \in TreeNodes(t) :
          DrawAnyTree(MaxShapeNodes - 1, root)
    /\ flowv = <<>>
    /\ rootv = ""
    /\ treev = <<>>
    /\ step = "tree"
    /\ SrvOff

NextT2G == TreeToGraph

SpecT2G == InitT2G /\ [][NextT2G]_vars

(***************************************************************************)
(* Claims about the conversions                                            *)
(***************************************************************************)

\* the edge label a child carries ("" when it carries none)
LabelOf(t) == Get(t, "edgeLabel", "")

RECURSIVE SameTree(_, _)
\* the same title, description, edge label and children, in order, at every
\* position (ids are not compared)
SameTree(a, b) ==
    /\ a.title = b.title
    /\ a.description = b.description
    /\ LabelOf(a) = LabelOf(b)
    /\ Len(Kids(a)) = Len(Kids(b))
    /\ \A i \in DOMAIN Kids(a) : SameTree(Kids(a)[i], Kids(b)[i])

\* C1 (as claimed): for every tree with pairwise distinct titles, whatever
\* the root and child titles, TreeToGraph then GraphToTree gives back a tree
\* with the same root and the same titles, descriptions, edge labels and
\* child order at every position.
C1_RoundTrip ==
    step = "back" => SameTree(input, treev)

\* The round trip does hold for the trees in which no node below the root
\* is titled "START".
RoundTripUnlessStartBelowRoot ==
    (step = "back" /\ \A i \in DOMAIN input.children :
                          "START" \notin TitlesOf(input.children[i]))
        => SameTree(input, treev)

\* every target of an edge of the flow, the empty title included
AllTargets(flow) ==
    UNION {{EdgeTarget(e) : e \in Range(Get(flow[i], "next", <<>>))} :
               i \in DOMAIN flow}

\* the root as the claim words it
ClaimedRoot(flow) ==
    LET sources == {i \in DOMAIN flow : flow[i].title \notin AllTargets(flow)}
    IN IF \E i \in DOMAIN flow : flow[i].title = "START" THEN "START"
       ELSE IF sources # {}
            THEN flow[CHOOSE i \in sources : \A j \in sources : i <= j].title
            ELSE flow[1].title

\* C2 (as claimed): root inference returns "START" if some node has that
\* title, otherwise the title of the first node in input order whose title
\* is the target of no edge, otherwise the title of the first node.
C2_RootInference ==
    step \in {"rooted", "built"} => rootv = ClaimedRoot(input)

\* Root inference does follow the three rules on the flows in which no edge
\* targets the empty title.
RootInferenceUnlessEmptyTarget ==
    (step \in {"rooted", "built"} /\ "" \notin AllTargets(input))
        => rootv = ClaimedRoot(input)

RECURSIVE Depth(_)
\* the number of nodes on the longest path from the root down
Depth(t) ==
    LET RECURSIVE Max(_)
        Max(i) == IF i = 0 THEN 0
                  ELSE LET d == Depth(Kids(t)[i])
                           m == Max(i - 1)
                       IN IF d > m THEN d ELSE m
    IN 1 + Max(Len(Kids(t)))

RECURSIVE RepeatsAreLeaves(_, _, _)
\* below ancestors titled `anc`, every node whose title is in `anc` has no
\* children and the id, title and description of the flat node of that title
RepeatsAreLeaves(t, anc, by_title) ==
    /\ t.title \in anc =>
          /\ Kids(t) = <<>>
          /\ t.id = Get(by_title[t.title], "id", t.title)
          /\ t.description = Get(by_title[t.title], "description", "")
    /\ \A i \in DOMAIN Kids(t) :
          RepeatsAreLeaves(Kids(t)[i], anc \cup {t.title}, by_title)

\* C3: on every flat graph, cyclic ones included, GraphToTree ends with a
\* finite tree (no path is longer than the number of titles plus one), and
\* a node whose title occurs among its ancestors is a leaf with its own id,
\* title and description and no children.
C3_CycleTermination ==
    step = "built" =>
        /\ Depth(treev) <= Cardinality(DOMAIN ByTitle(input)) + 1
        /\ RepeatsAreLeaves(treev, {}, ByTitle(input))

RECURSIVE HasCutRepeat(_, _, _)
\* some node repeats an ancestor's title although its flat node has edges
HasCutRepeat(t, anc, by_title) ==
    \/ /\ t.title \in anc
       /\ Get(by_title[t.title], "next", <<>>) # <<>>
    \/ \E i \in DOMAIN Kids(t) :
          HasCutRepeat(Kids(t)[i], anc \cup {t.title}, by_title)

\* C3's case: a cycle was cut
C3_Witness ==
    step = "built" /\ HasCutRepeat(treev, {}, ByTitle(input))

RECURSIVE EdgesFollowed(_, _, _)
\* an expanded node has one child per edge of its flat node, in order, each
\* titled as the edge's target, and the child of an edge whose target is no
\* title of the flow is the stub
EdgesFollowed(t, anc, by_title) ==
    (t.title \in DOMAIN by_title /\ t.title \notin anc) =>
        LET edges == Get(by_title[t.title], "next", <<>>)
        IN /\ Len(Kids(t)) = Len(edges)
           /\ \A i \in DOMAIN edges :
                LET c == Kids(t)[i]
                    tgt == EdgeTarget(edges[i])
                IN /\ c.title = tgt
                   /\ tgt \notin DOMAIN by_title =>
                         /\ c.id = "missing:" \o tgt
                         /\ c.description = ""
                         /\ c.children = <<>>
                   /\ EdgesFollowed(c, anc \cup {t.title}, by_title)

\* C4: whenever GraphToTree follows an edge whose target title matches no
\* node of the flat list, the child produced for the edge is a stub: id
\* "missing:" followed by the title, that title, empty description, no
\* children.
C4_DanglingStub ==
    step = "built" => EdgesFollowed(treev, {}, ByTitle(input))

\* C4's case: the root's flat node has an edge to a title of no node
C4_Witness ==
    /\ step = "built"
    /\ \E i \in DOMAIN Kids(treev) :
          /\ Kids(treev)[i].title \notin DOMAIN ByTitle(input)
          /\ Kids(treev)[i].id = "missing:" \o Kids(treev)[i].title

(***************************************************************************)
(* Claims about the server                                                 *)
(***************************************************************************)

\* the handler of worker w has run on a loaded tree
PastHandler(w) ==
    /\ pc[w] \in {"save", "save_locked", "emit", "done"}
    /\ hist[w].loaded # None

\* the request of w wrote nothing, and the file is as it was when the
\* request came in unless somebody else wrote meanwhile
StorageLeftAlone(w) ==
    /\ hist[w].writes = 0
    /\ nwrites = hist[w].writesAtStart => file = hist[w].fileAtStart

\* after a successful add, find_node(tree, newId) is a node with the
\* submitted title and description (the defaults when not submitted) and no
\* children
AddedIsFound(w) ==
    LET f == find_node(resp[w].tree, resp[w].newId)
    IN /\ f.found
       /\ LET n == NodeAt(resp[w].tree, f.path)
          IN /\ n.title = Get(req[w].data, "title", "Untitled")
             /\ n.description = Get(req[w].data, "description", "")
             /\ Kids(n) = <<>>

\* C5 (as claimed): for any stored tree, existing parentId and submitted
\* title, description and optional id, after addNode succeeds, finding the
\* returned newId in the resulting tree returns a node with the submitted
\* title and description and no children.
C5_AddThenFind ==
    \A w \in Workers :
        (pc[w] = "done" /\ req[w].op = "add" /\ resp[w].status = 200)
            => AddedIsFound(w)

\* Add then find does hold when no node of the loaded tree has the new id.
AddThenFindUnlessIdTaken ==
    \A w \in Workers :
        (/\ pc[w] = "done" /\ req[w].op = "add" /\ resp[w].status = 200
         /\ ~find_node(hist[w].loaded, resp[w].newId).found)
            => AddedIsFound(w)

\* C6: a deleteNode request whose id is the id of the root of the loaded
\* tree returns the cannot-delete-root error, writes nothing (the durable
\* storage stays as it was) and sends no broadcast.
C6_DeleteRootRejected ==
    \A w \in Workers :
        (/\ PastHandler(w)
         /\ req[w].op = "delete"
         /\ hist[w].loaded.id = req[w].node_id)
            => /\ pc[w] = "done"
               /\ resp[w] = [status |-> 400, error |-> "cannot delete root"]
               /\ StorageLeftAlone(w)
               /\ hist[w].emitted = <<>>

\* C6's case: a delete of the root has returned
C6_Witness ==
    \E w \in Workers :
        /\ pc[w] = "done"
        /\ req[w].op = "delete"
        /\ hist[w].loaded # None
        /\ hist[w].loaded.id = req[w].node_id
        /\ Kids(hist[w].loaded) # <<>>

\* the id a request names: the parent of an add, the node of an edit or
\* delete
NamedId(r) == IF r.op = "add" THEN r.data.parentId ELSE r.node_id

\* C7: when the parentId of an add, or the node id of an edit or delete,
\* matches no node of the loaded tree, the request returns a not-found
\* error, writes nothing (the durable storage stays as it was) and emits no
\* broadcast.
C7_NotFound ==
    \A w \in Workers :
        (/\ PastHandler(w)
         /\ req[w].op \in {"add", "edit", "delete"}
         /\ ~find_node(hist[w].loaded, NamedId(req[w])).found)
            => /\ pc[w] = "done"
               /\ resp[w] = [status |-> 404,
                             error |-> IF req[w].op = "add"
                                       THEN "parent not found"
                                       ELSE "node not found"]
               /\ StorageLeftAlone(w)
               /\ hist[w].emitted = <<>>

\* C7's case: an add under a parent that does not exist and an edit or a
\* delete of a node that does not exist have returned
C7_Witness ==
    \E w, v \in Workers :
        /\ pc[w] = "done" /\ pc[v] = "done"
        /\ req[w].op = "add" /\ req[v].op \in {"edit", "delete"}
        /\ resp[w].status = 404 /\ resp[v].status = 404

\* C8: every add, edit or delete that succeeds emits exactly one broadcast,
\* after its write to the durable storage, and the payload is the full
\* mutated tree of the request: the tree it returns, whose flattening is
\* what it wrote.
C8_OneBroadcastAfterWrite ==
    \A w \in Workers :
        /\ hist[w].emitted # <<>> => hist[w].writes = 1
        /\ (pc[w] = "done" /\ req[w].op # "get" /\ resp[w].status = 200)
              => /\ Len(hist[w].emitted) = 1
                 /\ hist[w].emitted[1] = resp[w].tree
                 /\ hist[w].wrote = _children_to_flow(hist[w].emitted[1])

\* C8's case: two mutations have succeeded and both broadcasts are out
C8_Witness ==
    /\ Len(broadcasts) = 2
    /\ \A w \in Workers : pc[w] = "done" /\ resp[w].status = 200
    /\ \E w \in Workers : req[w].op = "delete"

\* C9: whatever the initial shape of the file, once a save (or the seeding)
\* has written it, the file is a flat flow array in every later state.
C9_FlatAfterSave ==
    nwrites > 0 => file.kind = "list"

\* C9's case: the file was a nested object and a request has saved
C9_Witness ==
    \E w \in Workers :
        /\ hist[w].fileAtStart.kind = "dict"
        /\ hist[w].writes = 1

\* the main thread has just returned from the first load_tree() on a file
\* that was absent
SeededByFirstLoad ==
    /\ hist[Main].fileAtStart.kind = "absent"
    /\ pc[Main] = "loaded"

\* the file is a flow of one node titled "START" with description d and no
\* edge, and the loaded tree is one root with that title, description d
\* and no children
SeedIs(d) ==
    /\ file.kind = "list"
    /\ Len(file.flow) = 1
    /\ file.flow[1].title = "START"
    /\ file.flow[1].description = d
    /\ file.flow[1].next = <<>>
    /\ tree[Main].title = "START"
    /\ tree[Main].description = d
    /\ tree[Main].children = <<>>

\* C10 (as claimed): when the file is absent, the first load creates it as
\* a flow with exactly one node, titled "START", with empty description and
\* no edges, and returns a single root with that title, empty description
\* and no children.
C10_SeedEmptyDescription ==
    SeededByFirstLoad => SeedIs("")

\* C10 (amended): when the file is absent, the first load creates it as a
\* flow with exactly one node, with id "root-seed", titled "START", with
\* description "Start" and no edges, and returns a single root with that
\* id, title and description and no children.
C10_SeedStartDescription ==
    SeededByFirstLoad =>
        /\ SeedIs("Start")
        /\ file.flow[1].id = "root-seed"
        /\ tree[Main].id = "root-seed"

\* C10's case: the file was absent and the first load has returned
C10_Witness == SeededByFirstLoad

\* the ids of the nodes of a tree
IdsOf(t) == {NodeAt(t, p).id : p \in Paths(t)}

\* no two nodes of the tree have the same id
IdsUnique(t) ==
    \A p, q \in Paths(t) : NodeAt(t, p).id = NodeAt(t, q).id => p = q

\* C11 (as claimed): in every tree that getTree returns or that a mutation
\* returns and broadcasts, after any sequence of add, edit and delete
\* requests, no two nodes have the same id.
C11_UniqueIds ==
    /\ \A w \in Workers :
           (pc[w] = "done" /\ resp[w].status = 200) => IdsUnique(resp[w].tree)
    /\ \A i \in DOMAIN broadcasts : IdsUnique(broadcasts[i])

\* thread t is inside the `with _file_lock:` block of load_tree (the read,
\* the seeding included) or of save_tree (the write)
InsideFile(t) == pc[t] \in {"load_locked", "save_locked"}

\* C12: at most one thread at a time is inside the file read (seeding
\* included) or the file write, the lock is held by exactly the thread that
\* is inside, and so it is not held between a request's read and its write.
C12_MutualExclusion ==
    /\ \A t, u \in Threads : (InsideFile(t) /\ InsideFile(u)) => t = u
    /\ \A t \in Threads : InsideFile(t) <=> lock = t
    /\ \A w \in Workers :
           pc[w] \in {"loaded", "save", "emit"} => lock # w

\* C12's case: one request is inside its write while another, which has
\* read and changed its own tree, waits to write
C12_Witness ==
    \E w, v \in Workers :
        /\ pc[w] = "save_locked"
        /\ pc[v] = "save"
        /\ lock = w

\* what load_tree returns on file f (app.py 103-108)
LoadOf(f) == IF f.kind = "list" THEN _flow_to_children(f.flow) ELSE f.tree

\* the ids of the nodes of a flow
FlowIds(flow) == {flow[i].id : i \in DOMAIN flow}

\* v wrote first, w wrote last, and w had read before v wrote
WroteOverUnseen(v, w) ==
    /\ v # w
    /\ hist[v].writes = 1 /\ hist[w].writes = 1
    /\ hist[v].wroteAt < hist[w].wroteAt
    /\ hist[w].wroteAt = nwrites
    /\ hist[w].loadedAt < hist[v].wroteAt

\* C13: the durable state is the flattening of the tree of the request that
\* wrote last; when that request had read before the other one wrote, its
\* tree comes from the snapshot without the other's change (the file as it
\* was before the first write), and a node the first writer added is absent
\* from the final durable state.
C13_LastWriterWins ==
    \A w \in Workers :
        /\ (hist[w].writes = 1 /\ hist[w].wroteAt = nwrites)
              => file = [kind |-> "list", flow |-> _children_to_flow(tree[w])]
        /\ \A v \in Workers :
              WroteOverUnseen(v, w) =>
                /\ hist[v].writesAtStart = hist[w].loadedAt
                      => hist[w].loaded = LoadOf(hist[v].fileAtStart)
                /\ (/\ req[v].op = "add"
                    /\ req[v].new_id \notin IdsOf(tree[w]))
                      => req[v].new_id \notin FlowIds(file.flow)

\* C13's case: two adds ran concurrently, both read before either wrote,
\* both have returned ok, the first writer's node was in the file after
\* its write and is absent from the file now
C13_Witness ==
    \E v, w \in Workers :
        /\ WroteOverUnseen(v, w)
        /\ pc[v] = "done" /\ pc[w] = "done"
        /\ resp[v].status = 200 /\ resp[w].status = 200
        /\ req[v].op = "add" /\ req[w].op = "add"
        /\ hist[v].loadedAt = hist[w].loadedAt
        /\ req[v].new_id \in FlowIds(hist[v].wrote)
        /\ req[v].new_id \notin FlowIds(file.flow)

\* sequence s without its i-th element
WithoutIndex(s, i) == SubSeq(s, 1, i - 1) \o SubSeq(s, i + 1, Len(s))

\* tree t with exactly the node at `path` (not the root) taken out of its
\* parent's children, everything else as it was
RemoveAt(t, path) ==
    LET parent == NodeAt(t, Front(path))
    IN ReplaceAt(t, Front(path),
                 SetKey(parent, "children",
                        WithoutIndex(Kids(parent), path[Len(path)])))

\* the delete handler of w has run and found a node below the root
DeletedBelowRoot(w) ==
    /\ PastHandler(w)
    /\ req[w].op = "delete"
    /\ find_node(hist[w].loaded, req[w].node_id).found
    /\ find_node(hist[w].loaded, req[w].node_id).path # <<>>

\* C14 (as claimed): for a deleteNode request on an existing non-root id,
\* the resulting tree is the loaded tree with exactly the one found node
\* removed from its parent's children: the remaining siblings keep their
\* order and every other node is unchanged.
C14_DeleteExactlyOne ==
    \A w \in Workers :
        DeletedBelowRoot(w) =>
            tree[w] = RemoveAt(hist[w].loaded,
                               find_node(hist[w].loaded, req[w].node_id).path)

\* Delete does remove exactly the found node when no sibling of it has the
\* same id.
DeleteExactlyOneUnlessIdShared ==
    \A w \in Workers :
        LET f == find_node(hist[w].loaded, req[w].node_id)
        IN (/\ DeletedBelowRoot(w)
            /\ LET sibs == Kids(NodeAt(hist[w].loaded, Front(f.path)))
               IN \A i \in DOMAIN sibs :
                     sibs[i].id = req[w].node_id => i = f.path[Len(f.path)])
              => tree[w] = RemoveAt(hist[w].loaded, f.path)

\* the edit handler of w has run and found its node
EditedFound(w) ==
    /\ PastHandler(w)
    /\ req[w].op = "edit"
    /\ find_node(hist[w].loaded, req[w].node_id).found

\* the keys of a node other than its children, with their values
OwnFields(n) == [k \in DOMAIN n \ {"children"} |-> n[k]]

\* C15: for an editNode request on an existing id, the resulting tree has
\* the shape of the loaded tree; the found node has the request's title if
\* it carries one and the request's description if it carries one, and its
\* id, edgeLabel and children are unchanged; every other node is unchanged.
C15_EditFrame ==
    \A w \in Workers :
        EditedFound(w) =>
            LET old == hist[w].loaded
                new == tree[w]
                data == req[w].data
                fp == find_node(old, req[w].node_id).path
            IN /\ Paths(new) = Paths(old)
               /\ \A p \in Paths(old) :
                     LET o == NodeAt(old, p)
                         n == NodeAt(new, p)
                     IN IF p # fp THEN OwnFields(n) = OwnFields(o)
                        ELSE /\ n.id = o.id
                             /\ "edgeLabel" \in DOMAIN n
                                   <=> "edgeLabel" \in DOMAIN o
                             /\ LabelOf(n) = LabelOf(o)
                             /\ Kids(n) = Kids(o)
                             /\ n.title = IF "title" \in DOMAIN data
                                          THEN data.title ELSE o.title
                             /\ n.description =
                                   IF "description" \in DOMAIN data
                                   THEN data.description ELSE o.description

\* C15's case: an edit carrying a title has changed a labelled node below
\* the root and has returned ok
C15_Witness ==
    \E w \in Workers :
        /\ EditedFound(w)
        /\ pc[w] = "done" /\ resp[w].status = 200
        /\ "title" \in DOMAIN req[w].data
        /\ LET fp == find_node(hist[w].loaded, req[w].node_id).path
           IN /\ fp # <<>>
              /\ LabelOf(NodeAt(hist[w].loaded, fp)) # ""
              /\ NodeAt(tree[w], fp).title # NodeAt(hist[w].loaded, fp).title

(***************************************************************************)
(* Claims about TreeToGraph on trees with repeated titles                  *)
(***************************************************************************)

\* path p is visited before path q by the depth-first walk: p is an
\* ancestor of q, or p branches off to the left of q
Before(p, q) ==
    \E k \in 1..Len(q) :
        /\ k <= Len(p) + 1
        /\ SubSeq(p, 1, k - 1) = SubSeq(q, 1, k - 1)
        /\ (k = Len(p) + 1 \/ p[k] < q[k])

\* the path of the first-visited node of t with the title
FirstPath(t, title) ==
    CHOOSE p \in Paths(t) :
        /\ NodeAt(t, p).title = title
        /\ \A q \in Paths(t) :
              NodeAt(t, q).title = title => (q = p \/ Before(p, q))

\* the edge _children_to_flow pushes for child c
EdgeOf(c) == [label |-> LabelOf(c), next |-> c.title]

\* the parent-child pairs of t whose parent has the title and whose edge
\* is e
PairsOf(t, title, e) ==
    {<<p, i>> \in Paths(t) \X (1..MaxShapeNodes) :
        /\ NodeAt(t, p).title = title
        /\ i \in DOMAIN Kids(NodeAt(t, p))
        /\ EdgeOf(Kids(NodeAt(t, p))[i]) = e}

\* flow has one node per distinct title of t, the root's first and the
\* others in the order their titles are first visited depth-first, each
\* with the description of the first-visited node of its title and with
\* one edge per parent-child pair of the tree whose parent has the title
OneNodePerTitle(t, flow) ==
    /\ {flow[i].title : i \in DOMAIN flow} = TitlesOf(t)
    /\ Len(flow) = Cardinality(TitlesOf(t))
    /\ flow[1].title = t.title
    /\ \A i, j \in 2..Len(flow) :
          i < j => Before(FirstPath(t, flow[i].title),
                          FirstPath(t, flow[j].title))
    /\ \A i \in DOMAIN flow :
          /\ flow[i].description =
                NodeAt(t, FirstPath(t, flow[i].title)).description
          /\ Len(flow[i].next) =
                Cardinality({pc2 \in Paths(t) \ {<<>>} :
                               NodeAt(t, Front(pc2)).title = flow[i].title})
          /\ \A e \in Range(flow[i].next) :
                Cardinality({k \in DOMAIN flow[i].next : flow[i].next[k] = e})
                    = Cardinality(PairsOf(t, flow[i].title, e))

\* C16 (as claimed): for any tree, the output has exactly one GraphNode per
\* distinct title, the root's first and the others in first-visited
\* depth-first order, and each GraphNode carries the id and description of
\* the first-visited TreeNode with that title, later ones only adding
\* edges.
C16_FirstVisitedId ==
    step = "flat" =>
        /\ OneNodePerTitle(input, flowv)
        /\ \A i \in DOMAIN flowv :
              flowv[i].id = NodeAt(input, FirstPath(input, flowv[i].title)).id

\* C16 (amended): the same, except that a GraphNode whose first-visited
\* TreeNode has an empty id carries the title as its id.
C16_FirstVisitedIdOrTitle ==
    step = "flat" =>
        /\ OneNodePerTitle(input, flowv)
        /\ \A i \in DOMAIN flowv :
              LET first == NodeAt(input, FirstPath(input, flowv[i].title))
              IN flowv[i].id = IF first.id # "" THEN first.id
                               ELSE flowv[i].title

\* C16's case: a tree in which a title is repeated with another id and
\* description, the later node has a child, and a third title is first
\* visited below a node that is not the root
C16_Witness ==
    /\ step = "flat"
    /\ \E p, q \in Paths(input) :
          /\ Before(p, q)
          /\ NodeAt(input, p).title = NodeAt(input, q).title
          /\ NodeAt(input, p).id # NodeAt(input, q).id
          /\ NodeAt(input, p).description # NodeAt(input, q).description
          /\ Kids(NodeAt(input, q)) # <<>>
    /\ Len(flowv) = 3

(***************************************************************************)
(* Progress of the server under fair scheduling                            *)
(***************************************************************************)

\* worker w has a request that has not returned yet
InFlight(w) == pc[w] \notin {"idle", "done"}

\* C17: under fair scheduling every started request eventually returns
\* and the file lock, whenever it is held, is eventually free again; the
\* lock is only ever held by a thread inside its read or its write, so no
\* state is reachable in which a request waits for a lock nobody will
\* release.
C17_NoRequestBlocks ==
    /\ \A w \in Workers : InFlight(w) ~> (pc[w] = "done")
    /\ (lock # NoThread) ~> (lock = NoThread)
    /\ [](lock # NoThread => InsideFile(lock))

\* C17's case: a request waits for the lock that another request holds
C17_Witness ==
    \E w, v \in Workers :
        /\ pc[w] \in {"load", "save"}
        /\ lock = v
        /\ InsideFile(v)

(***************************************************************************)
(* Claims about what a mutation stores                                     *)
(***************************************************************************)

RECURSIVE SameTreeAndIds(_, _)
\* the same id, title, description, edge label and children, in order, at
\* every position
SameTreeAndIds(a, b) ==
    /\ a.id = b.id
    /\ a.title = b.title
    /\ a.description = b.description
    /\ LabelOf(a) = LabelOf(b)
    /\ Len(Kids(a)) = Len(Kids(b))
    /\ \A i \in DOMAIN Kids(a) : SameTreeAndIds(Kids(a)[i], Kids(b)[i])

\* the mutation of w has returned ok and nothing was written since its
\* write
MutatedLast(w) ==
    /\ pc[w] = "done"
    /\ req[w].op \in {"add", "edit", "delete"}
    /\ resp[w].status = 200
    /\ hist[w].wroteAt = nwrites

\* C18 (as claimed): after a successful add, edit or delete with no other
\* request interleaved, what a following getTree returns (load_tree on the
\* file as it now is) has the same root and the same ids, titles,
\* descriptions, edge labels and child order as the tree the mutation
\* returned and broadcast.
C18_StorageAgrees ==
    \A w \in Workers :
        MutatedLast(w) => SameTreeAndIds(LoadOf(file), resp[w].tree)

\* the titles of the tree are pairwise distinct and no node below the root
\* is titled "START"
TitlesKeepApart(t) ==
    /\ \A p, q \in Paths(t) :
          NodeAt(t, p).title = NodeAt(t, q).title => p = q
    /\ \A p \in Paths(t) : NodeAt(t, p).title = "START" => p = <<>>

\* Storage does agree with the broadcast when the titles of the mutated
\* tree are pairwise distinct and none below the root is "START".
StorageAgreesWhenTitlesKeepApart ==
    \A w \in Workers :
        (MutatedLast(w) /\ TitlesKeepApart(resp[w].tree))
            => SameTreeAndIds(LoadOf(file), resp[w].tree)

RECURSIVE ReachedFrom(_, _)
\* the titles reached from the titles in `set` by following edges of flow
ReachedFrom(flow, set) ==
    LET more == set \cup
                UNION {{EdgeTarget(e) : e \in Range(Get(flow[i], "next", <<>>))} :
                          i \in {j \in DOMAIN flow : flow[j].title \in set}}
    IN IF more = set THEN set ELSE ReachedFrom(flow, more)

\* flow is non-empty, its titles are pairwise distinct, every edge target
\* is the title of one of its nodes, and every node is reached from the
\* first one
WellFormedFlow(flow) ==
    /\ flow # <<>>
    /\ \A i, j \in DOMAIN flow : flow[i].title = flow[j].title => i = j
    /\ AllTargets(flow) \subseteq {flow[i].title : i \in DOMAIN flow}
    /\ {flow[i].title : i \in DOMAIN flow}
          \subseteq ReachedFrom(flow, {flow[1].title})

\* C19: in every state after a save (or the seeding) has written the file,
\* the stored flat list is non-empty, its titles are pairwise distinct,
\* every edge target is the title of a node in the list, and every node is
\* reachable from the first node by following edges.
C19_WellFormedStorage ==
    /\ nwrites > 0 => (file.kind = "list" /\ WellFormedFlow(file.flow))
    /\ \A w \in Workers : hist[w].writes = 1 => WellFormedFlow(hist[w].wrote)

\* C19's case: a save has just written a tree in which two nodes have the
\* same title
C19_Witness ==
    \E w \in Workers :
        /\ hist[w].writes = 1
        /\ hist[w].wroteAt = nwrites
        /\ Len(file.flow) >= 2
        /\ Cardinality(TitlesOf(tree[w])) < Cardinality(Paths(tree[w]))

\* _children_to_flow gives a well-formed flow on every tree, titles
\* repeated or not (SpecT2G).
FlattenedIsWellFormed ==
    step = "flat" => WellFormedFlow(flowv)

\* the edit of w carried neither title nor description, found its node
\* and has written; the file it read was a flow that a save (or the
\* seeding) had written, and nobody wrote between its arrival and its write
NoChangeEditWrote(w) ==
    /\ hist[w].writes = 1
    /\ req[w].op = "edit"
    /\ req[w].data = None
    /\ hist[w].writesAtStart > 0
    /\ hist[w].wroteAt = hist[w].writesAtStart + 1

\* C20 (as claimed): when the durable state was written by a previous
\* save, an editNode request on an existing id that carries neither title
\* nor description leaves the durable flat list (nodes, their order, each
\* node's edge list) identical to what it was.
C20_NoChangeEditKeepsStorage ==
    \A w \in Workers :
        NoChangeEditWrote(w) => hist[w].wrote = hist[w].fileAtStart.flow

\* The no-change edit does leave the list as it was when the stored flow
\* has its root first and loads into a tree whose titles are pairwise
\* distinct with no "START" below the root.
NoChangeEditKeepsStorageWhenTitlesKeepApart ==
    \A w \in Workers :
        (/\ NoChangeEditWrote(w)
         /\ _flow_root_title(hist[w].fileAtStart.flow)
               = hist[w].fileAtStart.flow[1].title
         /\ TitlesKeepApart(hist[w].loaded))
            => hist[w].wrote = hist[w].fileAtStart.flow

=============================================================================
